---- MODULE Spec2Model ----
(***************************************************************************)
(* Option-Pricing: the parameter-estimation pipeline of OptionPricingBase, *)
(* the data fetcher it calls, the Black-Scholes pricer, the Monte-Carlo    *)
(* pricer and the put-call parity check.                                   *)
(*                                                                         *)
(* Numbers are fixed-point: a finite float x is the integer x * Scale.     *)
(* A float value is a record [k, v]: k = "fin" (v is the scaled value),    *)
(* "inf" (v is the sign), "nan", or "none" for Python's None.              *)
(***************************************************************************)
EXTENDS Integers, Sequences, FiniteSets, TLC

VARIABLES self, now, call, rng, sims

vars == <<self, now, call, rng, sims>>

-----------------------------------------------------------------------------
(* Bounds of the model and constants of the program *)

\* fixed-point resolution: three decimal digits
Scale == 10 ^ 3

\* most observations a price series of the provider holds
MaxObs == 3

\* most observations the treasury-rate query returns
MaxRateObs == 2

\* the clock runs from 0 to MaxClock ticks
MaxClock == 2

\* ticks of the clock in one calendar day
TicksPerDay == 2

\* terms of the exponential series
ExpTerms == 12

\* AmericanOptionPricing.SIMULATION_COUNT (100000 in the program)
SIMULATION_COUNT == 2

\* states of the random generator
RngPeriod == 8

\* how many of the latest simulation runs are remembered
SimWindow == 2

\* OptionPricingBase.LOOK_BACK_WINDOW
LOOK_BACK_WINDOW == 252

\* (expiry - today).days / 365.0
DaysPerYear == 365

\* get_treasury_rate() / 100.0
PercentDivisor == 100

\* std * 252 ** 0.5
TradingDays == 252

\* data_fetcher.SOURCES
SOURCES == <<"yahoo", "morningstar">>

-----------------------------------------------------------------------------
(* Floating point values *)

None == [k |-> "none", v |-> 0]
NaN == [k |-> "nan", v |-> 0]
PosInf == [k |-> "inf", v |-> 1]
NegInf == [k |-> "inf", v |-> -1]
Fin(n) == [k |-> "fin", v |-> n]

IsFin(a) == a.k = "fin"
IsNaN(a) == a.k = "nan"
IsInf(a) == a.k = "inf"

Abs(n) == IF n < 0 THEN -n ELSE n
Sgn(n) == IF n < 0 THEN -1 ELSE IF n > 0 THEN 1 ELSE 0
\* the sign of a float that is not NaN
SignOf(a) == IF IsInf(a) THEN a.v ELSE Sgn(a.v)
Inf(s) == IF s < 0 THEN NegInf ELSE PosInf

\* integer quotient rounded toward zero
Quot(a, b) == Sgn(a) * Sgn(b) * (Abs(a) \div Abs(b))

FNeg(a) ==
    IF IsFin(a) THEN Fin(-a.v)
    ELSE IF IsInf(a) THEN Inf(-a.v)
    ELSE a

FAdd(a, b) ==
    IF IsNaN(a) \/ IsNaN(b) THEN NaN
    ELSE IF IsInf(a) /\ IsInf(b) THEN (IF a.v = b.v THEN a ELSE NaN)
    ELSE IF IsInf(a) THEN a
    ELSE IF IsInf(b) THEN b
    ELSE Fin(a.v + b.v)

FSub(a, b) == FAdd(a, FNeg(b))

FMul(a, b) ==
    IF IsNaN(a) \/ IsNaN(b) THEN NaN
    ELSE IF IsInf(a) \/ IsInf(b)
         THEN (IF SignOf(a) * SignOf(b) = 0 THEN NaN ELSE Inf(SignOf(a) * SignOf(b)))
    ELSE Fin(Quot(a.v * b.v, Scale))

\* numpy's division: x / 0 is +-inf, 0 / 0 is nan, and nothing is raised
FDiv(a, b) ==
    IF IsNaN(a) \/ IsNaN(b) THEN NaN
    ELSE IF IsInf(a) /\ IsInf(b) THEN NaN
    ELSE IF IsInf(a) THEN Inf(a.v * (IF SignOf(b) < 0 THEN -1 ELSE 1))
    ELSE IF IsInf(b) THEN Fin(0)
    ELSE IF b.v = 0 THEN (IF a.v = 0 THEN NaN ELSE Inf(Sgn(a.v)))
    ELSE Fin(Quot(a.v * Scale, b.v))

\* a > b as IEEE compares: false when either is NaN
FGt(a, b) ==
    IF IsNaN(a) \/ IsNaN(b) THEN FALSE
    ELSE IF IsInf(a) /\ IsInf(b) THEN a.v > b.v
    ELSE IF IsInf(a) THEN a.v > 0
    ELSE IF IsInf(b) THEN b.v < 0
    ELSE a.v > b.v

\* a == b as IEEE compares: NaN equals nothing
FEq(a, b) == ~IsNaN(a) /\ ~IsNaN(b) /\ a = b

RECURSIVE SqrtIter(_, _)
SqrtIter(n, x) ==
    LET y == (x + n \div x) \div 2
    IN  IF y >= x THEN x ELSE SqrtIter(n, y)

\* floor of the square root of n >= 0
ISqrt(n) == IF n = 0 THEN 0 ELSE SqrtIter(n, n)

FSqrt(a) ==
    IF IsNaN(a) THEN NaN
    ELSE IF IsInf(a) THEN (IF a.v > 0 THEN PosInf ELSE NaN)
    ELSE IF a.v < 0 THEN NaN
    ELSE Fin(ISqrt(a.v * Scale))

RECURSIVE ExpSeries(_, _, _, _)
ExpSeries(x, k, term, acc) ==
    IF k > ExpTerms \/ term = 0 THEN acc
    ELSE LET t == (term * x) \div (k * Scale)
         IN  ExpSeries(x, k + 1, t, acc + t)

\* e^x for a scaled x, by its power series
Exp(x) ==
    IF x >= 0 THEN ExpSeries(x, 1, Scale, Scale)
    ELSE (Scale * Scale) \div ExpSeries(-x, 1, Scale, Scale)

FExp(a) ==
    IF IsNaN(a) THEN NaN
    ELSE IF IsInf(a) THEN (IF a.v > 0 THEN PosInf ELSE Fin(0))
    ELSE Fin(Exp(a.v))

\* ln 2, scaled
LN2 == (693 * Scale) \div 1000

\* ln x for Scale <= x < 2 * Scale: 2 * (z + z^3/3 + z^5/5), z = (x-1)/(x+1)
LnSeries(x) ==
    LET z == ((x - Scale) * Scale) \div (x + Scale)
        z3 == (z * z * z) \div (Scale * Scale)
        z5 == (z3 * z * z) \div (Scale * Scale)
    IN  2 * (z + z3 \div 3 + z5 \div 5)

RECURSIVE Ln(_)
Ln(x) ==
    IF x >= 2 * Scale THEN LN2 + Ln(x \div 2)
    ELSE IF x < Scale THEN Ln(2 * x) - LN2
    ELSE LnSeries(x)

\* numpy's log: log(0) is -inf, the log of a negative number is nan
FLog(a) ==
    IF IsNaN(a) THEN NaN
    ELSE IF IsInf(a) THEN (IF a.v > 0 THEN PosInf ELSE NaN)
    ELSE IF a.v < 0 THEN NaN
    ELSE IF a.v = 0 THEN NegInf
    ELSE Fin(Ln(a.v))

\* the standard normal distribution function, by 1 / (1 + e^(-1.702 x))
NormCdf(a) ==
    IF IsNaN(a) THEN NaN
    ELSE IF IsInf(a) THEN (IF a.v > 0 THEN Fin(Scale) ELSE Fin(0))
    ELSE IF a.v > 5 * Scale THEN Fin(Scale)
    ELSE IF a.v < -5 * Scale THEN Fin(0)
    ELSE Fin((Scale * Scale) \div (Scale + Exp(-((1702 * a.v) \div 1000))))

\* Python 2's round(x): to the nearest integer, halves away from zero
PyRound(a) ==
    IF ~IsFin(a) THEN a
    ELSE IF a.v >= 0 THEN Fin(((2 * a.v + Scale) \div (2 * Scale)) * Scale)
    ELSE Fin(-(((2 * (-a.v) + Scale) \div (2 * Scale)) * Scale))

RECURSIVE SeqSum(_)
SeqSum(s) == IF s = <<>> THEN 0 ELSE Head(s) + SeqSum(Tail(s))

Last(s) == s[Len(s)]

\* the sequences over S of length lo..hi
SeqsOf(S, lo, hi) == UNION {[1..n -> S] : n \in lo..hi}

-----------------------------------------------------------------------------
(* The inputs: contract terms, and what the data providers may answer *)

Tickers == {"AAPL"}

\* expiry datetimes, in ticks: later on the first day, the next day, a year on
Expiries == {1, TicksPerDay, DaysPerYear * TicksPerDay}

Strikes == {Fin(100 * Scale), Fin(105 * Scale)}

Dividends == {Fin(0), Fin((2 * Scale) \div 100)}

\* close prices a provider may report
Closes == {100 * Scale, 110 * Scale}

\* the Close column of every frame a provider may return, the empty one included
CloseColumns == SeqsOf(Closes, 0, MaxObs)

\* treasury rates, in percent
TreasuryRates == {1 * Scale, 5 * Scale}

\* the 'Value' column of what quandl may answer, oldest observation first
TreasuryFrames == SeqsOf(TreasuryRates, 0, MaxRateObs)

\* start dates a caller may pass to override_historical_start_date (days)
HistStartDates == {-LOOK_BACK_WINDOW, -(2 * LOOK_BACK_WINDOW)}

\* pd.DataFrame()
EmptyFrame == [start |-> 0, Close |-> <<>>, log_returns |-> <<>>]

\* the frame DataReader(ticker, source, start, end) returns with these closes
Frame(start, closes) ==
    [start |-> start, Close |-> closes, log_returns |-> <<>>]

\* DataFrame.empty
IsEmpty(df) == df.Close = <<>>

\* the day a clock reading falls on
DayOf(t) == t \div TicksPerDay

-----------------------------------------------------------------------------
(* data_fetcher *)

\* what one call of data.DataReader may do: raise, or return a frame
ReaderReplies(source, start) ==
    {[raised |-> TRUE, df |-> EmptyFrame]}
    \cup {[raised |-> FALSE, df |-> Frame(start, c)] : c \in CloseColumns}

\* the record of one call of DataReader: the source asked and what it did
Asked(i, outcome, r) == [source |-> SOURCES[i], outcome |-> outcome, Close |-> r.df.Close]

RECURSIVE SourceLoop(_, _, _, _)

\* the loop body with the break left out: every source is asked
ReaderStepNoBreak(i, start, df, log, r) ==
    IF r.raised
    THEN SourceLoop(i + 1, start, df, Append(log, Asked(i, "raise", r)))
    ELSE SourceLoop(i + 1, start, r.df,
                    Append(log, Asked(i, IF IsEmpty(r.df) THEN "empty" ELSE "data", r)))

\* one pass of the loop body of get_ranged_data for source i and its reply r
ReaderStep(i, start, df, log, r) ==
    IF r.raised
    THEN SourceLoop(i + 1, start, df, Append(log, Asked(i, "raise", r)))
    ELSE IF ~IsEmpty(r.df)
    THEN {[df |-> r.df, log |-> Append(log, Asked(i, "data", r))]}
    ELSE SourceLoop(i + 1, start, r.df,
                    Append(log, Asked(i, "empty", r)))

\* for source in SOURCES[i..]: every way the rest of the loop may run
SourceLoop(i, start, df, log) ==
    IF i > Len(SOURCES) THEN {[df |-> df, log |-> log]}
    ELSE UNION {ReaderStep(i, start, df, log, r) : r \in ReaderReplies(SOURCES[i], start)}

\* get_ranged_data(ticker, start, None, useQuandl=False): the frame returned and
\* the sources asked, for every behaviour of the sources
GetRangedData(start) == SourceLoop(1, start, EmptyFrame, <<>>)

\* get_treasury_rate() on quandl's answer df
GetTreasuryRate(df) ==
    IF df = <<>> THEN [status |-> "IOError", value |-> None]
    ELSE [status |-> "ok", value |-> Fin(df[1])]

-----------------------------------------------------------------------------
(* OptionPricingBase *)

\* OptionPricingBase.__init__ at clock reading today
NewPricer(cls, ticker, expiry_date, strike, dividend, today) ==
    [cls |-> cls,
     ticker |-> ticker,
     expiry |-> expiry_date,
     strike_price |-> strike,
     volatility |-> None,
     time_to_maturity |-> None,
     risk_free_rate |-> None,
     spot_price |-> None,
     dividend |-> dividend,
     underlying_asset_data |-> EmptyFrame,
     start_date |-> DayOf(today) - LOOK_BACK_WINDOW]

\* the outcome of a method: the object, the exception or "ok", the clock, quandl's
\* answer if it was asked, the sources asked if the series was fetched
Outcome(s, status, t, quandl, log, fetched) ==
    [self |-> s, status |-> status, now |-> t, quandl |-> quandl, log |-> log,
     fetched |-> fetched]

\* _set_risk_free_rate, quandl answering df
SetRiskFreeRateOn(s, t, df) ==
    LET r == GetTreasuryRate(df)
    IN  IF r.status # "ok" THEN Outcome(s, r.status, t, df, <<>>, FALSE)
        ELSE Outcome([s EXCEPT !.risk_free_rate = FDiv(r.value, Fin(PercentDivisor * Scale))],
                     "ok", t, df, <<>>, FALSE)

\* timedelta.days of a difference of clock readings
DeltaDays(d) == d \div TicksPerDay

\* what two successive calls of datetime.today() may read from clock reading t on
ClockReads(t) == {rd \in (t..MaxClock) \X (t..MaxClock) : rd[1] <= rd[2]}

\* _set_time_to_maturity, datetime.today() reading t1 and then t2
SetTimeToMaturityOn(s, t1, t2) ==
    IF s.expiry < t1 THEN Outcome(s, "ValueError", t1, <<>>, <<>>, FALSE)
    ELSE Outcome([s EXCEPT !.time_to_maturity =
                               Fin((DeltaDays(s.expiry - t2) * Scale) \div DaysPerYear)],
                 "ok", t2, <<>>, <<>>, FALSE)

\* _get_underlying_asset_data with the cache test left out: it always fetches
GetUnderlyingAssetDataAlways(s, t) ==
    {Outcome([s EXCEPT !.underlying_asset_data = run.df],
             IF IsEmpty(run.df) THEN "IOError" ELSE "ok", t, <<>>, run.log, TRUE)
       : run \in GetRangedData(s.start_date)}

\* _get_underlying_asset_data: every way it may run
GetUnderlyingAssetData(s, t) ==
    IF IsEmpty(s.underlying_asset_data)
    THEN {Outcome([s EXCEPT !.underlying_asset_data = run.df],
                  IF IsEmpty(run.df) THEN "IOError" ELSE "ok", t, <<>>, run.log, TRUE)
            : run \in GetRangedData(s.start_date)}
    ELSE {Outcome(s, "ok", t, <<>>, <<>>, FALSE)}

\* np.log(Close / Close.shift(1))
LogReturns(closes) ==
    [i \in 1..Len(closes) |->
        IF i = 1 THEN NaN ELSE FLog(FDiv(Fin(closes[i]), Fin(closes[i - 1])))]

\* np.std of a pandas column: NaN entries are skipped, ddof is 0
NpStd(xs) ==
    LET kept == {i \in 1..Len(xs) : ~IsNaN(xs[i])}
        n == Cardinality(kept)
        vals == [i \in 1..Len(xs) |-> IF i \in kept /\ IsFin(xs[i]) THEN xs[i].v ELSE 0]
        mean == Quot(SeqSum(vals), n)
        sq == [i \in 1..Len(xs) |-> IF i \in kept THEN (vals[i] - mean) * (vals[i] - mean) ELSE 0]
    IN  IF n = 0 THEN NaN
        ELSE IF \E i \in kept : IsInf(xs[i]) THEN NaN
        ELSE Fin(ISqrt(SeqSum(sq) \div n))

\* 252 ** 0.5
SqrtTradingDays == Fin(ISqrt(TradingDays * Scale * Scale))

\* the body of _set_volatility after the series is there
ComputeVolatility(s) ==
    LET lr == LogReturns(s.underlying_asset_data.Close)
    IN  [s EXCEPT !.underlying_asset_data.log_returns = lr,
                  !.volatility = FMul(NpStd(lr), SqrtTradingDays)]

\* _set_volatility: every way it may run
SetVolatilityOn(s, t) ==
    {IF g.status # "ok" THEN g ELSE [g EXCEPT !.self = ComputeVolatility(g.self)]
       : g \in GetUnderlyingAssetData(s, t)}

\* _set_spot_price: every way it may run
SetSpotPriceOn(s, t) ==
    {IF g.status # "ok" THEN g
     ELSE [g EXCEPT !.self.spot_price = Fin(Last(g.self.underlying_asset_data.Close))]
       : g \in GetUnderlyingAssetData(s, t)}

\* initialize_variables from its third statement on
InitializeVariablesTail(o) ==
    UNION {IF v.status # "ok" THEN {[v EXCEPT !.quandl = o.quandl]}
           ELSE {[p EXCEPT !.quandl = o.quandl, !.log = v.log, !.fetched = v.fetched]
                   : p \in SetSpotPriceOn(v.self, v.now)}
             : v \in SetVolatilityOn(o.self, o.now)}

\* initialize_variables at clock reading t: every way it may run
InitializeVariablesOn(s, t) ==
    UNION {LET r == SetRiskFreeRateOn(s, t, df)
           IN  IF r.status # "ok" THEN {r}
               ELSE UNION {LET m == SetTimeToMaturityOn(r.self, rd[1], rd[2])
                           IN  IF m.status # "ok" THEN {[m EXCEPT !.quandl = df]}
                               ELSE InitializeVariablesTail([m EXCEPT !.quandl = df])
                             : rd \in ClockReads(t)}
             : df \in TreasuryFrames}

\* override_historical_start_date(hist_start_date)
OverrideHistoricalStartDateOn(s, hist_start_date) ==
    [s EXCEPT !.start_date = hist_start_date]

-----------------------------------------------------------------------------
(* The state machine of one pricer object *)

\* the call that returned last: its name, how it ended, what the providers
\* answered during it, its arguments and its result
Call(name, o, args, ret) ==
    [name |-> name, status |-> o.status, quandl |-> o.quandl, log |-> o.log,
     fetched |-> o.fetched, args |-> args, ret |-> ret]

NoCall == [name |-> "__init__", status |-> "ok", quandl |-> <<>>, log |-> <<>>,
           fetched |-> FALSE, args |-> <<>>, ret |-> <<>>]

\* the module-level random generator, seeded by the system when random is imported
RngStart == [state |-> 0, seed |-> -1]

Init ==
    /\ now = 0
    /\ \E tk \in Tickers, e \in {1, TicksPerDay}, k \in {Fin(100 * Scale)}, q \in {Fin(0)} :
          self = NewPricer("OptionPricingBase", tk, e, k, q, now)
    /\ call = NoCall
    /\ rng = RngStart
    /\ sims = <<>>

Returns(name, o) ==
    /\ self' = o.self
    /\ now' = o.now
    /\ call' = Call(name, o, <<>>, <<>>)
    /\ UNCHANGED <<rng, sims>>

InitializeVariables ==
    \E o \in InitializeVariablesOn(self, now) : Returns("initialize_variables", o)

SetRiskFreeRate ==
    \E df \in TreasuryFrames : Returns("_set_risk_free_rate", SetRiskFreeRateOn(self, now, df))

SetTimeToMaturity ==
    \E rd \in ClockReads(now) :
        Returns("_set_time_to_maturity", SetTimeToMaturityOn(self, rd[1], rd[2]))

SetVolatility ==
    \E o \in SetVolatilityOn(self, now) : Returns("_set_volatility", o)

SetSpotPrice ==
    \E o \in SetSpotPriceOn(self, now) : Returns("_set_spot_price", o)

OverrideHistoricalStartDate ==
    \E d \in HistStartDates :
        /\ self' = OverrideHistoricalStartDateOn(self, d)
        /\ call' = [NoCall EXCEPT !.name = "override_historical_start_date", !.args = <<d>>]
        /\ UNCHANGED <<now, rng, sims>>

Next ==
    \/ InitializeVariables
    \/ SetRiskFreeRate
    \/ SetTimeToMaturity
    \/ SetVolatility
    \/ SetSpotPrice
    \/ OverrideHistoricalStartDate

Spec == Init /\ [][Next]_vars

\* the calls that read the price series, in any order and any number of times
NextData ==
    \/ SetVolatility
    \/ SetSpotPrice
    \/ OverrideHistoricalStartDate

SpecData == Init /\ [][NextData]_vars

-----------------------------------------------------------------------------
(* EuropeanOptionPricing *)

Half == Fin(Scale \div 2)

\* self.volatility * np.sqrt(self.time_to_maturity)
VolSqrtT(s) == FMul(s.volatility, FSqrt(s.time_to_maturity))

\* _calculate_d1
CalculateD1(s) ==
    FDiv(FAdd(FLog(FDiv(s.spot_price, s.strike_price)),
              FMul(FAdd(FSub(s.risk_free_rate, s.dividend),
                        FMul(Half, FMul(s.volatility, s.volatility))),
                   s.time_to_maturity)),
         VolSqrtT(s))

\* _calculate_d2
CalculateD2(s) ==
    FDiv(FAdd(FLog(FDiv(s.spot_price, s.strike_price)),
              FMul(FSub(FSub(s.risk_free_rate, s.dividend),
                        FMul(Half, FMul(s.volatility, s.volatility))),
                   s.time_to_maturity)),
         VolSqrtT(s))

\* np.exp(-1 * self.risk_free_rate * self.time_to_maturity)
DiscountFactor(s) == FExp(FMul(FNeg(s.risk_free_rate), s.time_to_maturity))

\* self.spot_price * np.exp(-1 * self.dividend * self.time_to_maturity)
DividendAdjustedSpot(s) ==
    FMul(s.spot_price, FExp(FMul(FNeg(s.dividend), s.time_to_maturity)))

\* EuropeanOptionPricing.calculate_option_prices: it returns <<call, put>>
EuropeanCalculateOptionPricesOn(s) ==
    LET d1 == CalculateD1(s)
        d2 == CalculateD2(s)
        pvStrike == FMul(s.strike_price, DiscountFactor(s))
        callPrice == FSub(FMul(DividendAdjustedSpot(s), NormCdf(d1)),
                          FMul(pvStrike, NormCdf(d2)))
        putPrice == FSub(FMul(pvStrike, NormCdf(FNeg(d2))),
                         FMul(DividendAdjustedSpot(s), NormCdf(FNeg(d1))))
    IN  [status |-> "ok", ret |-> <<callPrice, putPrice>>]

-----------------------------------------------------------------------------
(* AmericanOptionPricing *)

\* random.gauss(0.0, 1.0) on the module-level generator g: the sample, and the
\* generator after it
Gauss(g) ==
    LET st == (5 * g.state + 3) % RngPeriod
    IN  [eps |-> Fin(((st % 3) - 1) * Scale), rng |-> [g EXCEPT !.state = st]]

\* _generate_asset_price with the sample eps
GenerateAssetPrice(s, eps) ==
    FMul(s.spot_price,
         FExp(FAdd(FMul(FSub(s.risk_free_rate, FMul(Half, FMul(s.volatility, s.volatility))),
                        s.time_to_maturity),
                   FMul(VolSqrtT(s), eps))))

\* Python's max(0, x): x when x > 0, else 0 (so 0 when x is NaN)
PyMax0(x) == IF FGt(x, Fin(0)) THEN x ELSE Fin(0)

\* _call_payoff
CallPayoff(s, expected_price) == PyMax0(FSub(expected_price, s.strike_price))

\* _put_payoff
PutPayoff(s, expected_price) == PyMax0(FSub(s.strike_price, expected_price))

RECURSIVE SimulationLoop(_, _, _, _, _)
\* the loop of _generate_simulations with n trials left
SimulationLoop(s, g, n, call_payoffs, put_payoffs) ==
    IF n = 0 THEN [call_payoffs |-> call_payoffs, put_payoffs |-> put_payoffs, rng |-> g]
    ELSE LET d == Gauss(g)
             expected_asset_price == GenerateAssetPrice(s, d.eps)
         IN  SimulationLoop(s, d.rng, n - 1,
                            Append(call_payoffs, CallPayoff(s, expected_asset_price)),
                            Append(put_payoffs, PutPayoff(s, expected_asset_price)))

\* _generate_simulations
GenerateSimulations(s, g) == SimulationLoop(s, g, SIMULATION_COUNT, <<>>, <<>>)

RECURSIVE FSum(_)
\* Python's sum of a list of floats
FSum(xs) == IF xs = <<>> THEN Fin(0) ELSE FAdd(Head(xs), FSum(Tail(xs)))

\* sum(payoffs) / len(payoffs)
Mean(xs) == FDiv(FSum(xs), Fin(Len(xs) * Scale))

\* AmericanOptionPricing.calculate_option_prices on the generator g: it returns
\* <<call_price, put_price>> and leaves the generator advanced
AmericanCalculateOptionPricesOn(s, g) ==
    LET sim == GenerateSimulations(s, g)
        discount_factor == DiscountFactor(s)
    IN  [status |-> "ok",
         ret |-> <<FMul(discount_factor, Mean(sim.call_payoffs)),
                   FMul(discount_factor, Mean(sim.put_payoffs))>>,
         rng |-> sim.rng]

-----------------------------------------------------------------------------
(* The put-call parity check *)

\* int(x): the fraction is dropped, not rounded
Truncate(a) == IF ~IsFin(a) THEN a ELSE Fin(Quot(a.v, Scale) * Scale)

\* the parity check with the fraction dropped instead of rounded
IsCallPutParityTruncated(s, call_price, put_price) ==
    LET lhs == FSub(call_price, put_price)
        rhs == FSub(s.spot_price, FMul(DiscountFactor(s), s.strike_price))
    IN  FEq(Truncate(lhs), Truncate(rhs))

\* is_call_put_parity_maintained(call_price, put_price)
IsCallPutParityMaintainedOn(s, call_price, put_price) ==
    LET lhs == FSub(call_price, put_price)
        rhs == FSub(s.spot_price, FMul(DiscountFactor(s), s.strike_price))
    IN  FEq(PyRound(lhs), PyRound(rhs))

-----------------------------------------------------------------------------
(* The state machine of a constructed pricer *)

PricerClasses == {"EuropeanOptionPricing", "AmericanOptionPricing"}

\* seeds a caller may pass to random.seed
Seeds == {1}

\* call prices and put prices a caller may pass to the parity check
CallArgs == {Fin((55 * Scale) \div 10), Fin((104 * Scale) \div 10), NaN}
PutArgs == {Fin(0), Fin((6 * Scale) \div 10)}

\* the series the providers answer while the pricers are constructed
ConstructionCloses == {c \in CloseColumns : Len(c) = MaxObs}

\* EuropeanOptionPricing.__init__ / AmericanOptionPricing.__init__ at clock
\* reading t: the objects whose construction completes
Constructed(cls, ticker, expiry_date, strike, dividend, t) ==
    {o \in InitializeVariablesOn(NewPricer(cls, ticker, expiry_date, strike, dividend, t), t) :
        /\ o.status = "ok"
        /\ o.self.underlying_asset_data.Close \in ConstructionCloses}

InitPricing ==
    /\ \E cls \in PricerClasses, tk \in Tickers, e \in Expiries \ {TicksPerDay},
          k \in Strikes, q \in Dividends :
          \E o \in Constructed(cls, tk, e, k, q, 0) :
              /\ self = o.self
              /\ now = o.now
    /\ call = NoCall
    /\ rng = RngStart
    /\ sims = <<>>

\* the inputs of a simulation run
SimParams(s) ==
    <<s.spot_price, s.strike_price, s.risk_free_rate, s.volatility, s.time_to_maturity,
      SIMULATION_COUNT>>

\* the last SimWindow runs
Remember(runs, run) ==
    LET all == Append(runs, run)
    IN  IF Len(all) <= SimWindow THEN all ELSE Tail(all)

EuropeanCalculateOptionPrices ==
    /\ self.cls = "EuropeanOptionPricing"
    /\ LET r == EuropeanCalculateOptionPricesOn(self)
       IN  call' = [NoCall EXCEPT !.name = "calculate_option_prices",
                                  !.status = r.status, !.ret = r.ret]
    /\ UNCHANGED <<self, now, rng, sims>>

AmericanCalculateOptionPrices ==
    /\ self.cls = "AmericanOptionPricing"
    /\ LET r == AmericanCalculateOptionPricesOn(self, rng)
       IN  /\ call' = [NoCall EXCEPT !.name = "calculate_option_prices",
                                     !.status = r.status, !.ret = r.ret]
           /\ rng' = r.rng
           /\ sims' = Remember(sims, [seed |-> rng.seed, params |-> SimParams(self),
                                      quote |-> r.ret])
    /\ UNCHANGED <<self, now>>

IsCallPutParityMaintained ==
    \E c \in CallArgs, p \in PutArgs :
        /\ call' = [NoCall EXCEPT !.name = "is_call_put_parity_maintained",
                                  !.args = <<c, p>>,
                                  !.ret = <<IsCallPutParityMaintainedOn(self, c, p)>>]
        /\ UNCHANGED <<self, now, rng, sims>>

\* the caller's random.seed(seed)
Seed ==
    \E seed \in Seeds :
        /\ rng' = [state |-> seed % RngPeriod, seed |-> seed]
        /\ call' = [NoCall EXCEPT !.name = "random.seed", !.args = <<seed>>]
        /\ UNCHANGED <<self, now, sims>>

NextPricing ==
    \/ EuropeanCalculateOptionPrices
    \/ AmericanCalculateOptionPrices
    \/ IsCallPutParityMaintained
    \/ Seed

SpecPricing == InitPricing /\ [][NextPricing]_vars

-----------------------------------------------------------------------------
(* Properties *)

Estimators == {"_set_volatility", "_set_spot_price"}

IsSet(a) == a.k # "none"

Parameters(s) == {s.risk_free_rate, s.time_to_maturity, s.volatility, s.spot_price}

\* C1: whenever time-to-maturity estimation completes without error, the stored
\* time_to_maturity is strictly greater than 0.
C1_TimeToMaturityPositive ==
    (call.name \in {"_set_time_to_maturity", "initialize_variables"} /\ call.status = "ok")
        => (IsFin(self.time_to_maturity) /\ self.time_to_maturity.v > 0)

\* C2: after initialize_variables fails with an estimation-time error, no partial
\* parameters are left: it is not the case that one of risk_free_rate,
\* time_to_maturity, volatility, spot_price is set while another is unset.
C2_NoPartialParameters ==
    (call.name = "initialize_variables" /\ call.status \in {"ValueError", "IOError"})
        => ~(\E a, b \in Parameters(self) : IsSet(a) /\ ~IsSet(b))

\* C3: once a non-empty series is cached, a call of _set_volatility or
\* _set_spot_price does not fetch again and leaves the cached closes as they
\* were; the spot price it stores is the last close of that series and the
\* volatility it stores is the one computed from that series.
C3_FetchedOnce ==
    [][(/\ ~IsEmpty(self.underlying_asset_data)
        /\ call'.name \in Estimators)
       => (/\ ~call'.fetched
           /\ call'.log = <<>>
           /\ self'.underlying_asset_data.Close = self.underlying_asset_data.Close
           /\ self'.underlying_asset_data.start = self.underlying_asset_data.start
           /\ (call'.name = "_set_spot_price"
                 => self'.spot_price = Fin(Last(self.underlying_asset_data.Close)))
           /\ (call'.name = "_set_volatility"
                 => self'.volatility =
                      FMul(NpStd(LogReturns(self.underlying_asset_data.Close)),
                           SqrtTradingDays))
           /\ ((IsSet(self'.volatility) /\ IsSet(self'.spot_price))
                 => (/\ self'.spot_price = Fin(Last(self'.underlying_asset_data.Close))
                     /\ self'.underlying_asset_data.log_returns =
                          LogReturns(self'.underlying_asset_data.Close))))]_vars

\* C3 witness: _set_spot_price has returned without fetching, on the series the
\* volatility was computed from.
C3_Witness ==
    /\ call.name = "_set_spot_price"
    /\ call.status = "ok"
    /\ ~call.fetched
    /\ IsSet(self.volatility)
    /\ self.spot_price = Fin(Last(self.underlying_asset_data.Close))

\* the sources of the log whose outcome is "data"
DataEntries(log) == {i \in 1..Len(log) : log[i].outcome = "data"}

\* C4: a fetch asks the sources in the order of SOURCES, asks a later source only
\* if every earlier one raised or returned an empty frame, and caches the first
\* non-empty frame; if every source raised or returned an empty frame, the fetch
\* ends in an IOError with no series cached.
C4_SourcesInOrder ==
    call.fetched =>
        LET log == call.log
        IN  /\ Len(log) \in 1..Len(SOURCES)
            /\ \A i \in 1..Len(log) : log[i].source = SOURCES[i]
            /\ \A i \in 1..Len(log) : \A j \in 1..(i - 1) :
                   log[j].outcome \in {"raise", "empty"}
            /\ (DataEntries(log) # {}
                  => /\ self.underlying_asset_data.Close =
                          log[CHOOSE i \in DataEntries(log) :
                                 \A j \in DataEntries(log) : i <= j].Close
                     /\ (call.name \in Estimators => call.status = "ok"))
            /\ (DataEntries(log) = {}
                  => /\ Len(log) = Len(SOURCES)
                     /\ call.status = "IOError"
                     /\ IsEmpty(self.underlying_asset_data))

\* C4 witness: the first source raised and the second one's frame was cached.
C4_Witness ==
    /\ call.fetched
    /\ call.status = "ok"
    /\ Len(call.log) = 2
    /\ call.log[1].outcome = "raise"
    /\ call.log[2].outcome = "data"
    /\ self.underlying_asset_data.Close = call.log[2].Close

\* C5: calculate_option_prices of either pricer fails with an invalid-parameter
\* error whenever volatility <= 0 or time_to_maturity <= 0.
C5_PricersRejectBadParameters ==
    (/\ call.name = "calculate_option_prices"
     /\ (~FGt(self.volatility, Fin(0)) \/ ~FGt(self.time_to_maturity, Fin(0))))
        => call.status = "InvalidParameterError"

\* C6: _set_volatility fails with a data-unavailable error on a series of fewer
\* than 2 observations, and never completes with a non-finite volatility stored.
C6_VolatilityFinite ==
    call.name = "_set_volatility" =>
        /\ (Len(self.underlying_asset_data.Close) < 2 => call.status = "IOError")
        /\ (call.status = "ok" => IsFin(self.volatility))

\* C7: _set_risk_free_rate stores the latest observation quandl returned, divided
\* by 100, and fails with an IOError when quandl returned none.
C7_LatestTreasuryRate ==
    call.name = "_set_risk_free_rate" =>
        IF call.quandl = <<>> THEN call.status = "IOError"
        ELSE /\ call.status = "ok"
             /\ self.risk_free_rate =
                  FDiv(Fin(Last(call.quandl)), Fin(PercentDivisor * Scale))

\* n is x rounded to the nearest integer, halves away from zero
IsNearest(x, n) ==
    IF x >= 0 THEN 2 * n * Scale - Scale <= 2 * x /\ 2 * x < 2 * n * Scale + Scale
    ELSE 2 * n * Scale - Scale < 2 * x /\ 2 * x <= 2 * n * Scale + Scale

\* a and b round to the same integer
RoundAlike(a, b) ==
    IF IsFin(a) /\ IsFin(b)
    THEN \E n \in (Quot(a.v, Scale) - 1)..(Quot(a.v, Scale) + 1) :
            IsNearest(a.v, n) /\ IsNearest(b.v, n)
    ELSE IsInf(a) /\ IsInf(b) /\ a.v = b.v

\* C8: is_call_put_parity_maintained(call, put) returns a boolean, true iff
\* call - put and spot_price - exp(-r*T)*strike round to the same integer, and it
\* changes no field of the pricer.
C8_ParityCheck ==
    [][call'.name = "is_call_put_parity_maintained"
       => (/\ self' = self
           /\ call'.ret[1] \in BOOLEAN
           /\ call'.ret[1] =
                RoundAlike(FSub(call'.args[1], call'.args[2]),
                           FSub(self.spot_price,
                                FMul(DiscountFactor(self), self.strike_price))))]_vars

\* C8 witness: the check has returned true on a difference that is no integer.
C8_Witness ==
    /\ call.name = "is_call_put_parity_maintained"
    /\ call.ret = <<TRUE>>
    /\ IsFin(call.args[1])
    /\ PyRound(FSub(call.args[1], call.args[2])) # FSub(call.args[1], call.args[2])

\* C9: two simulation runs under the same seed and the same parameters return
\* the same prices.
C9_SeededRunsAgree ==
    \A i, j \in 1..Len(sims) :
        (sims[i].seed # -1 /\ sims[i].seed = sims[j].seed /\ sims[i].params = sims[j].params)
            => sims[i].quote = sims[j].quote

\* C10: after override_historical_start_date(d), a volatility or spot estimation
\* that completes has used a series fetched with start date d.
C10_OverrideTakesEffect ==
    (call.name \in Estimators /\ call.status = "ok")
        => self.underlying_asset_data.start = self.start_date

====
